---- MODULE Spec2Model ----
(***************************************************************************)
(* Model of src/blockchain.py (pyncoin): the Block value with its          *)
(* canonical hash and proof-of-work check, and the Blockchain aggregate    *)
(* with add_block, the mining entry points, send_transaction and replace.  *)
(*                                                                         *)
(* Python objects are records carrying a `class` field, so isinstance is a *)
(* comparison of that field.  A Python list is a TLA+ sequence, wrapped as *)
(* [class |-> "list", items |-> ...] where the code tests isinstance(list).*)
(* Timestamps are counted in ticks (TicksPerSecond per second) relative to *)
(* the genesis timestamp, so that datetimes carry a sub-second part.       *)
(***************************************************************************)
EXTENDS Integers, Sequences, FiniteSets, TLC

\* ---------------------------------------------------------------- bounds
HashBits == 4           \* width of the modelled digest (sha256 has 256 bits)
MaxChain == 3           \* longest chain held or offered (genesis included)
MaxDifficulty == 1      \* largest difficulty carried by a candidate block
MaxMinutes == 1         \* the wall clock runs for MaxMinutes minutes after genesis
TicksPerSecond == 2     \* resolution of a datetime
MaxPeriods == 2         \* retarget periods covered by the chains of SpecDifficulty
MaxGapSeconds == 23     \* slowest block interval of those chains, in seconds

\* ---------------------------------------------------- program constants
GENESIS_TIMESTAMP == 1528359030
TOLERANCE_SECONDS == 60
BLOCK_GENERATION_INTERVAL == 10
DIFFICULTY_ADJUSTMENT_INTERVAL == 10

HashSpace == 2 ^ HashBits
Tolerance == TOLERANCE_SECONDS * TicksPerSecond
Minute == 60 * TicksPerSecond

\* ------------------------------------------------------- Python objects
NoneObject == [class |-> "NoneType"]
PyList(s)  == [class |-> "list", items |-> s]
isinstance(obj, cls) == obj.class = cls

\* An optional value returned by a function that answers None on failure.
None    == [is_none |-> TRUE, value |-> {}]
Some(v) == [is_none |-> FALSE, value |-> v]

\* previous_hash of the genesis block is None.
NoHash == -1

\* ------------------------------------- hashlib.sha256, scaled to HashBits
\* hasher.update absorbs one encoded field into the running state.
sha256_new == 1
sha256_update(h, x) == (h * 7 + x + 3) % HashSpace

\* ----------------------------------------- Transaction (collaborator)
PK == "A"
address_code(a) == IF a = "A" THEN 1 ELSE 2

\* A coinbase names the block height it mints for; a transfer names the
\* id of the transaction whose output it spends.
coinbase(address, block_index) ==
    [class |-> "Transaction", kind |-> "coinbase", ref |-> block_index, to |-> address]
transfer(tx_out_id, address) ==
    [class |-> "Transaction", kind |-> "transfer", ref |-> tx_out_id, to |-> address]

get_id(tx) ==
    sha256_update(sha256_update(sha256_update(sha256_new,
        IF tx.kind = "coinbase" THEN 0 ELSE 1), tx.ref), address_code(tx.to))

UnspentTxOut(tx) == [tx_out_id |-> get_id(tx), address |-> tx.to]

\* process_transactions(block_data, prior_utxos, block_index): the new
\* unspent set, or None when the block's transactions are rejected.
process_transactions(data, utxos, block_index) ==
    IF data = <<>>
    THEN IF block_index = 0 THEN Some(utxos) ELSE None
    ELSE LET spends == {i \in 2..Len(data) : TRUE}
             ids == {u.tx_out_id : u \in utxos}
         IN  IF /\ data[1].kind = "coinbase"
                /\ data[1].ref = block_index
                /\ \A i \in spends : /\ data[i].kind = "transfer"
                                     /\ data[i].ref \in ids
                /\ \A i, j \in spends : i # j => data[i].ref # data[j].ref
             THEN Some({u \in utxos : \A i \in spends : data[i].ref # u.tx_out_id}
                       \cup {UnspentTxOut(data[i]) : i \in DOMAIN data})
             ELSE None

\* ---------------------------------------------------------------- Block
RECURSIVE update_ids(_, _, _)
update_ids(h, data, i) ==
    IF i > Len(data) THEN h
    ELSE update_ids(sha256_update(h, get_id(data[i])), data, i + 1)

\* int(timestamp.timestamp()): whole seconds since the Unix epoch.
ts_int(timestamp) == GENESIS_TIMESTAMP + (timestamp \div TicksPerSecond)

calculate_hash(index, previous_hash, timestamp, data, difficulty, nonce) ==
    LET h1 == sha256_update(sha256_new, index)
        h2 == IF previous_hash # NoHash THEN sha256_update(h1, previous_hash) ELSE h1
        h3 == sha256_update(h2, ts_int(timestamp))
        h4 == update_ids(h3, data, 1)
        h5 == sha256_update(h4, difficulty)
    IN  sha256_update(h5, nonce)

Block(index, previous_hash, timestamp, data, difficulty, nonce) ==
    [class |-> "Block", index |-> index, previous_hash |-> previous_hash,
     timestamp |-> timestamp, data |-> data, difficulty |-> difficulty,
     nonce |-> nonce,
     hash |-> calculate_hash(index, previous_hash, timestamp, data, difficulty, nonce)]

calculate_hash_for_block(b) ==
    calculate_hash(b.index, b.previous_hash, b.timestamp, b.data, b.difficulty, b.nonce)

\* BitArray(bytes=hash).bin, most significant bit first.
bin(hash) == [i \in 1..HashBits |-> (hash \div (2 ^ (HashBits - i))) % 2]

hash_matches_difficulty(hash, difficulty) ==
    LET bits == bin(hash)
    IN  /\ difficulty <= HashBits
        /\ \A i \in 1..difficulty : bits[i] = 0

\* Block.find: the first nonce, counting up from 0, whose hash conforms.
RECURSIVE find_nonce(_, _, _, _, _, _)
find_nonce(index, previous_hash, timestamp, data, difficulty, nonce) ==
    IF hash_matches_difficulty(
           calculate_hash(index, previous_hash, timestamp, data, difficulty, nonce),
           difficulty)
    THEN nonce
    ELSE find_nonce(index, previous_hash, timestamp, data, difficulty, nonce + 1)

\* Block.find that starts its search at nonce 1.
find_from_one(index, previous_hash, timestamp, data, difficulty) ==
    Block(index, previous_hash, timestamp, data, difficulty,
          find_nonce(index, previous_hash, timestamp, data, difficulty, 1))

find(index, previous_hash, timestamp, data, difficulty) ==
    Block(index, previous_hash, timestamp, data, difficulty,
          find_nonce(index, previous_hash, timestamp, data, difficulty, 0))

genesis_block == Block(0, NoHash, 0, <<>>, 0, 0)

\* bytes.hex() and hex_to_bytes: the digest as a string of hex digits.
HexLen == (HashBits + 3) \div 4
hex(h) == [i \in 1..HexLen |-> (h \div (16 ^ (HexLen - i))) % 16]

RECURSIVE hex_value(_, _)
hex_value(digits, i) ==
    IF i = 0 THEN 0 ELSE 16 * hex_value(digits, i - 1) + digits[i]
hex_to_bytes(digits) == hex_value(digits, Len(digits))

\* Transaction.to_raw_list / from_raw_list: the transactions as plain dicts.
to_raw_list(data) ==
    [i \in DOMAIN data |-> [kind |-> data[i].kind, ref |-> data[i].ref, to |-> data[i].to]]
from_raw_list(raw) ==
    [i \in DOMAIN raw |->
        [class |-> "Transaction", kind |-> raw[i].kind, ref |-> raw[i].ref, to |-> raw[i].to]]

\* The raw form carries the timestamp as whole Unix seconds.
to_raw(b) ==
    [index |-> b.index,
     previousHash |-> IF b.previous_hash # NoHash THEN Some(hex(b.previous_hash)) ELSE None,
     timestamp |-> ts_int(b.timestamp),
     data |-> to_raw_list(b.data),
     difficulty |-> b.difficulty,
     nonce |-> b.nonce,
     hash |-> hex(b.hash)]

\* datetime.fromtimestamp(seconds, tz=utc), in ticks after genesis.
fromtimestamp(seconds) == (seconds - GENESIS_TIMESTAMP) * TicksPerSecond

from_raw(raw_obj) ==
    Block(raw_obj.index,
          IF ~raw_obj.previousHash.is_none
          THEN hex_to_bytes(raw_obj.previousHash.value) ELSE NoHash,
          fromtimestamp(raw_obj.timestamp),
          from_raw_list(raw_obj.data),
          raw_obj.difficulty,
          raw_obj.nonce)

\* has_valid_hash without the proof-of-work test.
has_valid_hash_no_pow(b) ==
    IF calculate_hash_for_block(b) # b.hash THEN FALSE
    ELSE TRUE

has_valid_hash(b) ==
    IF calculate_hash_for_block(b) # b.hash THEN FALSE
    ELSE IF ~hash_matches_difficulty(b.hash, b.difficulty) THEN FALSE
    ELSE TRUE

is_genesis(block) == block = genesis_block

\* The integer and bytes fields of a modelled block always have their
\* declared types; what can go wrong is an element of data.
has_valid_structure(b) ==
    \A i \in DOMAIN b.data : isinstance(b.data[i], "Transaction")

\* is_valid_timestamp with both comparisons inclusive.
is_valid_timestamp_inclusive(new_block, previous_block, clock) ==
    /\ previous_block.timestamp - new_block.timestamp <= Tolerance
    /\ new_block.timestamp - clock <= Tolerance

is_valid_timestamp(new_block, previous_block, clock) ==
    /\ previous_block.timestamp - new_block.timestamp < Tolerance
    /\ new_block.timestamp - clock < Tolerance

\* is_valid_next without the comparison of previous_hash.
is_valid_next_unlinked(self, next_block, clock) ==
    IF ~has_valid_structure(next_block) THEN FALSE
    ELSE IF self.index + 1 # next_block.index THEN FALSE
    ELSE IF ~is_valid_timestamp(next_block, self, clock) THEN FALSE
    ELSE IF ~has_valid_hash(next_block) THEN FALSE
    ELSE TRUE

is_valid_next(self, next_block, clock) ==
    IF ~has_valid_structure(next_block) THEN FALSE
    ELSE IF self.index + 1 # next_block.index THEN FALSE
    ELSE IF self.hash # next_block.previous_hash THEN FALSE
    ELSE IF ~is_valid_timestamp(next_block, self, clock) THEN FALSE
    ELSE IF ~has_valid_hash(next_block) THEN FALSE
    ELSE TRUE

\* ----------------------------------------------------------- Blockchain
\* validate_blocks answers the unspent set, None, or raises: the result
\* carries the exception name in exc ("" when it returned).
Returned(v) == [exc |-> "", result |-> v]
Raised(e)   == [exc |-> e, result |-> None]

RECURSIVE validate_from(_, _, _, _)
validate_from(items, i, utxos, clock) ==
    IF i > Len(items) THEN Some(utxos)
    ELSE IF \/ ~isinstance(items[i], "Block")
            \/ (i # 1 /\ ~is_valid_next(items[i - 1], items[i], clock))
         THEN None
         ELSE LET next == process_transactions(items[i].data, utxos, items[i].index)
              IN  IF next.is_none THEN None
                  ELSE validate_from(items, i + 1, next.value, clock)

validate_blocks(new_blocks, clock) ==
    IF ~isinstance(new_blocks, "list") THEN Returned(None)
    ELSE IF new_blocks.items = <<>> THEN Raised("IndexError")
    ELSE IF ~is_genesis(new_blocks.items[1]) THEN Returned(None)
    ELSE Returned(validate_from(new_blocks.items, 1, {}, clock))

RECURSIVE sum_difficulty(_, _)
sum_difficulty(bs, i) ==
    IF i > Len(bs) THEN 0 ELSE 2 ^ bs[i].difficulty + sum_difficulty(bs, i + 1)

get_accumulated_difficulty(bs) == sum_difficulty(bs, 1)


get_latest(self) == self.blocks[Len(self.blocks)]

Max(a, b) == IF a >= b THEN a ELSE b

get_adjusted_difficulty(self) ==
    LET prev_adjusment_block ==
            self.blocks[Max(0, Len(self.blocks) - DIFFICULTY_ADJUSTMENT_INTERVAL) + 1]
        latest_block == get_latest(self)
        time_expected == BLOCK_GENERATION_INTERVAL * DIFFICULTY_ADJUSTMENT_INTERVAL
        \* total_seconds(), kept in ticks
        time_taken == latest_block.timestamp - prev_adjusment_block.timestamp
    IN  IF 2 * time_taken < time_expected * TicksPerSecond
        THEN prev_adjusment_block.difficulty + 1
        ELSE IF time_taken > time_expected * 2 * TicksPerSecond
        THEN Max(prev_adjusment_block.difficulty - 1, 0)
        ELSE prev_adjusment_block.difficulty

\* get_difficulty without the test that the tip is not the genesis block.
get_difficulty_at_genesis(self) ==
    LET latest_block == get_latest(self)
    IN  IF latest_block.index % DIFFICULTY_ADJUSTMENT_INTERVAL = 0
        THEN get_adjusted_difficulty(self)
        ELSE latest_block.difficulty

get_difficulty(self) ==
    LET latest_block == get_latest(self)
    IN  IF /\ latest_block.index % DIFFICULTY_ADJUSTMENT_INTERVAL = 0
           /\ latest_block.index # 0
        THEN get_adjusted_difficulty(self)
        ELSE latest_block.difficulty

\* ------------------------------------ TransactionPool (collaborator)
\* update drops the pending transactions whose input is no longer unspent.
pool_update(transactions, utxos) ==
    SelectSeq(transactions, LAMBDA tx : tx.ref \in {u.tx_out_id : u \in utxos})

\* add_transaction accepts a transfer of an unspent output that no pending
\* transaction already spends.
pool_accepts(transactions, tx, utxos) ==
    /\ tx.kind = "transfer"
    /\ tx.ref \in {u.tx_out_id : u \in utxos}
    /\ \A i \in DOMAIN transactions : transactions[i].ref # tx.ref

\* ------------------------------------------- outcome of a method call
PyInt(n) == [class |-> "int", value |-> n]
PyTrue   == [class |-> "bool", value |-> TRUE]
PyFalse  == [class |-> "bool", value |-> FALSE]
NoReturn == [class |-> "NoReturn"]

\* self after the call, what it returned or raised, and how many times it
\* called tx_pool.update and the broadcaster.
Outcome(self, ret, exc, pool_updates, broadcasts) ==
    [self |-> self, ret |-> ret, exc |-> exc,
     pool_updates |-> pool_updates, broadcasts |-> broadcasts]

\* RawSerializable subclasses are the objects that have to_raw().
has_to_raw(obj) == obj.class \in {"Block", "Transaction"}

\* add_block that appends the block but keeps the old unspent set.
add_block_call_stale_ledger(self, block, clock) ==
    IF ~isinstance(block, "Block")
    THEN IF has_to_raw(block)
         THEN Outcome(self, NoReturn, "BadRequestError", 0, 0)
         ELSE Outcome(self, NoReturn, "AttributeError", 0, 0)
    ELSE IF ~is_valid_next(get_latest(self), block, clock)
    THEN Outcome(self, PyFalse, "", 0, 0)
    ELSE LET utxos == process_transactions(block.data, self.unspent_tx_outs, block.index)
         IN  IF utxos.is_none
             THEN Outcome(self, PyFalse, "", 0, 0)
             ELSE Outcome([self EXCEPT !.blocks = Append(@, block),
                                       !.tx_pool = pool_update(@, utxos.value)],
                          PyTrue, "", 1, 0)

\* add_block that appends the block before its transactions are processed.
add_block_call_early_append(self, block, clock) ==
    IF ~isinstance(block, "Block")
    THEN IF has_to_raw(block)
         THEN Outcome(self, NoReturn, "BadRequestError", 0, 0)
         ELSE Outcome(self, NoReturn, "AttributeError", 0, 0)
    ELSE IF ~is_valid_next(get_latest(self), block, clock)
    THEN Outcome(self, PyFalse, "", 0, 0)
    ELSE LET utxos == process_transactions(block.data, self.unspent_tx_outs, block.index)
         IN  IF utxos.is_none
             THEN Outcome([self EXCEPT !.blocks = Append(@, block)], PyFalse, "", 0, 0)
             ELSE Outcome([self EXCEPT !.blocks = Append(@, block),
                                       !.unspent_tx_outs = utxos.value,
                                       !.tx_pool = pool_update(@, utxos.value)],
                          PyTrue, "", 1, 0)

add_block_call(self, block, clock) ==
    IF ~isinstance(block, "Block")
    THEN \* the payload block.to_raw() is evaluated before the raise
         IF has_to_raw(block)
         THEN Outcome(self, NoReturn, "BadRequestError", 0, 0)
         ELSE Outcome(self, NoReturn, "AttributeError", 0, 0)
    ELSE IF ~is_valid_next(get_latest(self), block, clock)
    THEN Outcome(self, PyFalse, "", 0, 0)
    ELSE LET utxos == process_transactions(block.data, self.unspent_tx_outs, block.index)
         IN  IF utxos.is_none
             THEN Outcome(self, PyFalse, "", 0, 0)
             ELSE Outcome([self EXCEPT !.blocks = Append(@, block),
                                       !.unspent_tx_outs = utxos.value,
                                       !.tx_pool = pool_update(@, utxos.value)],
                          PyTrue, "", 1, 0)

\* broadcast_latest / broadcast_transaction_pool: an attribute access on
\* p2p_application, which is None until the application is wired.
broadcast(out, ret) ==
    IF out.self.p2p_application = "None"
    THEN [out EXCEPT !.ret = NoReturn, !.exc = "AttributeError"]
    ELSE [out EXCEPT !.ret = ret, !.broadcasts = @ + 1]

generate_raw_next_block_call(self, data, clock) ==
    LET previous_block == get_latest(self)
        next_index == previous_block.index + 1
        next_timestamp == clock
        difficulty == get_difficulty(self)
        next_block == find(next_index, previous_block.hash, next_timestamp, data, difficulty)
        added == add_block_call(self, next_block, clock)
    IN  IF added.ret = PyTrue
        THEN broadcast(added, next_block)
        ELSE [added EXCEPT !.ret = NoneObject]

generate_next_block_call(self, clock) ==
    LET coinbase_tx == coinbase(PK, get_latest(self).index + 1)
        block_data == <<coinbase_tx>> \o self.tx_pool
    IN  generate_raw_next_block_call(self, block_data, clock)

\* TxOut.is_valid_address: the addresses are byte strings, of which "A"
\* and "B" are public keys.
is_valid_address(address) == address \in {"A", "B"}

PyDecimal(n) == [class |-> "Decimal", value |-> n]
PyFloat(n)   == [class |-> "float", value |-> n]

\* wallet_tx is what wallet.create_transaction answers for the receiver.
generate_next_with_transaction_call(self, receiver_address, amount, wallet_tx, clock) ==
    IF ~is_valid_address(receiver_address)
    THEN Outcome(self, NoReturn, "BadRequestError", 0, 0)
    ELSE IF ~isinstance(amount, "Decimal")
    THEN Outcome(self, NoReturn, "BadRequestError", 0, 0)
    ELSE LET coinbase_tx == coinbase(PK, get_latest(self).index + 1)
             block_data == <<coinbase_tx, wallet_tx>>
         IN  generate_raw_next_block_call(self, block_data, clock)

\* send_transaction that broadcasts the pool before it raises.
send_transaction_call_announce_rejected(self, tx) ==
    IF pool_accepts(self.tx_pool, tx, self.unspent_tx_outs)
    THEN broadcast(Outcome([self EXCEPT !.tx_pool = Append(@, tx)], NoReturn, "", 0, 0), tx)
    ELSE Outcome(self, NoReturn, "BadRequestError", 0, 1)

send_transaction_call(self, tx) ==
    IF pool_accepts(self.tx_pool, tx, self.unspent_tx_outs)
    THEN broadcast(Outcome([self EXCEPT !.tx_pool = Append(@, tx)], NoReturn, "", 0, 0), tx)
    ELSE Outcome(self, NoReturn, "BadRequestError", 0, 0)

handle_received_transaction_call(self, tx) ==
    IF pool_accepts(self.tx_pool, tx, self.unspent_tx_outs)
    THEN Outcome([self EXCEPT !.tx_pool = Append(@, tx)], PyTrue, "", 0, 0)
    ELSE Outcome(self, PyFalse, "", 0, 0)

\* replace that also accepts a candidate of equal accumulated difficulty.
replace_call_on_tie(self, new_blocks, clock) ==
    LET validated == validate_blocks(new_blocks, clock)
        unspent_tx_outs == validated.result
        valid_chain == ~unspent_tx_outs.is_none
    IN  IF validated.exc # ""
        THEN Outcome(self, NoReturn, validated.exc, 0, 0)
        ELSE IF /\ isinstance(new_blocks, "list")
                /\ valid_chain
                /\ get_accumulated_difficulty(new_blocks.items)
                       >= get_accumulated_difficulty(self.blocks)
        THEN broadcast(Outcome([self EXCEPT !.blocks = new_blocks.items,
                                            !.unspent_tx_outs = unspent_tx_outs.value,
                                            !.tx_pool = pool_update(@, unspent_tx_outs.value)],
                               NoReturn, "", 1, 0),
                       PyTrue)
        ELSE Outcome(self, PyFalse, "", 0, 0)

\* replace that stores the validated unspent set before comparing the
\* accumulated difficulties.
replace_call_eager_ledger(self, new_blocks, clock) ==
    LET validated == validate_blocks(new_blocks, clock)
        unspent_tx_outs == validated.result
        valid_chain == ~unspent_tx_outs.is_none
    IN  IF validated.exc # ""
        THEN Outcome(self, NoReturn, validated.exc, 0, 0)
        ELSE IF /\ isinstance(new_blocks, "list")
                /\ valid_chain
                /\ get_accumulated_difficulty(new_blocks.items)
                       > get_accumulated_difficulty(self.blocks)
        THEN broadcast(Outcome([self EXCEPT !.blocks = new_blocks.items,
                                            !.unspent_tx_outs = unspent_tx_outs.value,
                                            !.tx_pool = pool_update(@, unspent_tx_outs.value)],
                               NoReturn, "", 1, 0),
                       PyTrue)
        ELSE Outcome(IF valid_chain
                     THEN [self EXCEPT !.unspent_tx_outs = unspent_tx_outs.value]
                     ELSE self,
                     PyFalse, "", 0, 0)

replace_call(self, new_blocks, clock) ==
    LET validated == validate_blocks(new_blocks, clock)
        unspent_tx_outs == validated.result
        valid_chain == ~unspent_tx_outs.is_none
    IN  IF validated.exc # ""
        THEN Outcome(self, NoReturn, validated.exc, 0, 0)
        ELSE IF /\ isinstance(new_blocks, "list")
                /\ valid_chain
                /\ get_accumulated_difficulty(new_blocks.items)
                       > get_accumulated_difficulty(self.blocks)
        THEN broadcast(Outcome([self EXCEPT !.blocks = new_blocks.items,
                                            !.unspent_tx_outs = unspent_tx_outs.value,
                                            !.tx_pool = pool_update(@, unspent_tx_outs.value)],
                               NoReturn, "", 1, 0),
                       PyTrue)
        ELSE Outcome(self, PyFalse, "", 0, 0)

\* ================================================================ state
VARIABLES blocks,            \* self.blocks
          unspent_tx_outs,   \* self.unspent_tx_outs
          tx_pool,           \* self.tx_pool.transactions
          p2p_application,   \* self.p2p_application: "None" or "P2PApplication"
          now,               \* datetime.now(tz=utc), in ticks after genesis
          mining,            \* the frame of a generate_raw_next_block call that is
                             \* inside Block.find; None when no mine is running
          last               \* the call whose outcome the caller holds: its name,
                             \* argument and outcome; "ready" between two calls

vars == <<blocks, unspent_tx_outs, tx_pool, p2p_application, now, mining, last>>

this == [blocks |-> blocks, unspent_tx_outs |-> unspent_tx_outs,
         tx_pool |-> tx_pool, p2p_application |-> p2p_application]

Event(op, arg, out) ==
    [op |-> op, arg |-> arg, ret |-> out.ret, exc |-> out.exc,
     pool_updates |-> out.pool_updates, broadcasts |-> out.broadcasts]

Quiet(self) == Outcome(self, NoReturn, "", 0, 0)

\* Calls on the aggregate are serialised: a call is made when the caller
\* of the previous one has taken its outcome.
Ready == last.op = "ready"

\* A call of a method of the aggregate: self is stored back, the clock and
\* the wiring are not touched.
Call(op, arg, outcome) ==
    \E out \in {outcome} :
        /\ blocks' = out.self.blocks
        /\ unspent_tx_outs' = out.self.unspent_tx_outs
        /\ tx_pool' = out.self.tx_pool
        /\ last' = Event(op, arg, out)
        /\ UNCHANGED <<p2p_application, now, mining>>

\* Blockchain.__init__
Init ==
    /\ blocks = <<genesis_block>>
    /\ p2p_application = "None"
    /\ tx_pool = <<>>
    /\ unspent_tx_outs = {}
    /\ now = 0
    /\ mining = NoneObject
    /\ last = Event("ready", NoneObject, Quiet(this))

\* ------------------------------------------------- inputs of the calls
\* The unspent set after the blocks items[i..], as validate_blocks folds it.
RECURSIVE ledger_after(_, _, _)
ledger_after(items, i, utxos) ==
    IF i > Len(items) THEN utxos
    ELSE LET next == process_transactions(items[i].data, utxos, items[i].index)
         IN  ledger_after(items, i + 1, IF next.is_none THEN utxos ELSE next.value)

Spendable(utxos) == {u \in utxos : u.address = PK}

SetMin(S) == CHOOSE x \in S : \A y \in S : x <= y

\* wallet.create_transaction(receiver, amount, utxos, pool): the transfer of
\* the wallet's first unspent output, if it has one.
create_transaction(receiver, utxos) ==
    IF Spendable(utxos) = {} THEN {}
    ELSE {transfer(SetMin({u.tx_out_id : u \in Spendable(utxos)}), receiver)}

\* Payloads that pass process_transactions at this height, and ones that
\* do not: no coinbase, and a coinbase for another height.
ValidData(index, utxos) ==
    {<<coinbase(PK, index)>>}
    \cup {<<coinbase(PK, index), tx>> : tx \in create_transaction("B", utxos)}

DataChoices(index, utxos) ==
    ValidData(index, utxos) \cup {<<>>, <<coinbase(PK, index + 1)>>}

\* Mined successors of prev: every valid payload at difficulty 0, and the
\* bare reward at every higher difficulty.
Mined(prev, utxos, clock) ==
    {find(prev.index + 1, prev.hash, clock, data, 0) :
         data \in ValidData(prev.index + 1, utxos)}
    \cup {find(prev.index + 1, prev.hash, clock, <<coinbase(PK, prev.index + 1)>>, d) :
              d \in 1..MaxDifficulty}

\* Blocks a peer may present as the successor of prev: the mined ones, and
\* ones with a single defect.
Extensions(prev, utxos, clock) ==
    LET index == prev.index + 1
        reward == <<coinbase(PK, index)>>
        base == find(index, prev.hash, clock, reward, 0)
        failing(d) == SetMin({n \in 0..HashSpace :
                         ~hash_matches_difficulty(
                             calculate_hash(index, prev.hash, clock, reward, d, n), d)})
    IN  Mined(prev, utxos, clock)
        \cup {find(index, prev.hash, clock, <<>>, 0),
              find(index, prev.hash, clock, <<coinbase(PK, index + 1)>>, 0),
              find(index + 1, prev.hash, clock, <<coinbase(PK, index + 1)>>, 0),
              find(index, (prev.hash + 1) % HashSpace, clock, reward, 0),
              find(index, prev.hash, prev.timestamp - Tolerance, reward, 0),
              find(index, prev.hash, clock + Tolerance, reward, 0),
              [base EXCEPT !.nonce = @ + 1],
              [base EXCEPT !.data = <<NoneObject>>]}
        \cup {Block(index, prev.hash, clock, reward, d, failing(d)) : d \in 1..MaxDifficulty}

AddBlockInputs ==
    Extensions(get_latest(this), unspent_tx_outs, now)
    \cup {NoneObject, coinbase(PK, 1)}

\* Chains a peer may offer: a prefix of the active chain, possibly with one
\* more block after it (any mined block after a proper prefix, any
\* successor after the whole chain); also no list, the empty list, a list
\* holding a non-Block and a list that does not start with the genesis block.
ReplaceInputs ==
    LET prefix(k) == SubSeq(blocks, 1, k)
        fork(k, successors) == {PyList(Append(prefix(k), e)) : e \in successors}
    IN  {NoneObject, PyList(<<>>), PyList(<<genesis_block, NoneObject>>),
         PyList(<<Block(0, NoHash, 0, <<>>, 0, 1)>>)}
        \cup {PyList(prefix(k)) : k \in 1..Len(blocks)}
        \cup UNION {fork(k, Mined(blocks[k], ledger_after(prefix(k), 1, {}), now)) :
                       k \in 1..(Len(blocks) - 1)}
        \cup (IF Len(blocks) < MaxChain
              THEN fork(Len(blocks), Extensions(get_latest(this), unspent_tx_outs, now))
              ELSE {})

WalletTransactions == create_transaction("B", unspent_tx_outs)

ReceivedTransactions ==
    WalletTransactions \cup {transfer(get_id(coinbase(PK, 0)), "B")}

\* ============================================================== actions
add_block(block) ==
    /\ Ready
    /\ Len(blocks) < MaxChain
    /\ Call("add_block", block, add_block_call(this, block, now))

generate_raw_next_block(data) ==
    /\ Ready
    /\ Len(blocks) < MaxChain
    /\ Call("generate_raw_next_block", PyList(data),
            generate_raw_next_block_call(this, data, now))

generate_next_block ==
    /\ Ready
    /\ Len(blocks) < MaxChain
    /\ Call("generate_next_block", NoneObject, generate_next_block_call(this, now))

\* Requests to mine a transfer: to a public key and to a byte string that
\* is none, of an exact decimal and of a binary float.  The wallet answers
\* a transfer when it has an output to spend.
TransferRequests ==
    {[class |-> "tuple", receiver_address |-> address, amount |-> amount] :
         address \in {"B", "X"}, amount \in {PyDecimal(1), PyFloat(1)}}

generate_next_with_transaction(request) ==
    /\ Ready
    /\ LET well_formed == /\ is_valid_address(request.receiver_address)
                          /\ isinstance(request.amount, "Decimal")
           answers == IF well_formed
                      THEN create_transaction(request.receiver_address, unspent_tx_outs)
                      ELSE {NoneObject}
       IN  /\ well_formed => Len(blocks) < MaxChain
           /\ \E wallet_tx \in answers :
                  Call("generate_next_with_transaction", request,
                       generate_next_with_transaction_call(
                           this, request.receiver_address, request.amount, wallet_tx, now))

\* wallet.create_transaction builds the transfer that is submitted.
send_transaction(tx) ==
    Ready /\ Call("send_transaction", tx, send_transaction_call(this, tx))

handle_received_transaction(tx) ==
    Ready /\ Call("handle_received_transaction", tx, handle_received_transaction_call(this, tx))

replace(new_blocks) ==
    Ready /\ Call("replace", new_blocks, replace_call(this, new_blocks, now))

\* The application attaches the broadcaster after construction.
set_p2p_application ==
    /\ Ready
    /\ p2p_application = "None"
    /\ p2p_application' = "P2PApplication"
    /\ UNCHANGED <<blocks, unspent_tx_outs, tx_pool, now, mining, last>>

\* The wall clock advances.
Tick ==
    /\ Ready
    /\ now + Minute <= MaxMinutes * Minute
    /\ now' = now + Minute
    /\ UNCHANGED <<blocks, unspent_tx_outs, tx_pool, p2p_application, mining, last>>

\* The caller takes the outcome of its call.
Return ==
    /\ ~Ready
    /\ last' = Event("ready", NoneObject, Quiet(this))
    /\ UNCHANGED <<blocks, unspent_tx_outs, tx_pool, p2p_application, now, mining>>

Next ==
    \/ Ready /\ \E block \in AddBlockInputs : add_block(block)
    \/ Ready /\ \E data \in DataChoices(get_latest(this).index + 1, unspent_tx_outs) :
                    generate_raw_next_block(data)
    \/ generate_next_block
    \/ Ready /\ \E request \in TransferRequests : generate_next_with_transaction(request)
    \/ Ready /\ \E tx \in WalletTransactions : send_transaction(tx)
    \/ Ready /\ \E tx \in ReceivedTransactions : handle_received_transaction(tx)
    \/ Ready /\ \E new_blocks \in ReplaceInputs : replace(new_blocks)
    \/ set_p2p_application
    \/ Tick
    \/ Return

Spec == Init /\ [][Next]_vars

\* ----------------------------------- the difficulty controller at work
\* Chains long enough to reach a retarget grow block after block: a peer
\* mines the next block some time after the tip and hands it to add_block.
LongestChain == MaxPeriods * DIFFICULTY_ADJUSTMENT_INTERVAL + 2

\* Block intervals around the two thresholds of the controller, to the tick.
Gaps ==
    {sec * TicksPerSecond + frac :
         sec \in {0, 4, 5, 20, 22, MaxGapSeconds}, frac \in 0..(TicksPerSecond - 1)}

\* A chain keeps the interval of its first two blocks.
ChainGaps ==
    IF Len(blocks) = 1 THEN Gaps
    ELSE {blocks[Len(blocks)].timestamp - blocks[Len(blocks) - 1].timestamp}

\* The peer mines at the tip's difficulty, or leaves difficulty 0 for a
\* higher one at the first or second block of a period.
PeerDifficulties ==
    LET tip == get_latest(this)
    IN  {tip.difficulty}
        \cup (IF /\ tip.difficulty = 0
                 /\ (tip.index + 1) % DIFFICULTY_ADJUSTMENT_INTERVAL \in {1, 2}
              THEN 1..MaxDifficulty ELSE {})

\* gap ticks after the tip was mined, add_block is called with a block
\* mined at that moment.
add_block_later(gap, difficulty) ==
    /\ Ready
    /\ Len(blocks) < LongestChain
    /\ LET prev == get_latest(this)
           clock == prev.timestamp + gap
           block == find(prev.index + 1, prev.hash, clock,
                         <<coinbase(PK, prev.index + 1)>>, difficulty)
       IN  \E out \in {add_block_call(this, block, clock)} :
               /\ blocks' = out.self.blocks
               /\ unspent_tx_outs' = out.self.unspent_tx_outs
               /\ tx_pool' = out.self.tx_pool
               /\ last' = Event("add_block", block, out)
               /\ now' = clock
    /\ UNCHANGED <<p2p_application, mining>>

get_difficulty_step ==
    /\ Ready
    /\ Call("get_difficulty", NoneObject,
            Outcome(this, PyInt(get_difficulty(this)), "", 0, 0))

NextDifficulty ==
    \/ Ready /\ \E gap \in ChainGaps, difficulty \in PeerDifficulties :
                    add_block_later(gap, difficulty)
    \/ get_difficulty_step
    \/ Return

SpecDifficulty == Init /\ [][NextDifficulty]_vars

\* ------------------------------------------------- short mined chains
\* Block i is mined gap ticks after block i - 1 with the bare reward as
\* payload; blocks from index step on carry difficulty d, the ones before
\* it difficulty 0.
RECURSIVE mined_chain(_, _, _, _, _)
mined_chain(bs, length, gap, step, d) ==
    IF Len(bs) >= length THEN bs
    ELSE LET prev == bs[Len(bs)]
             index == prev.index + 1
         IN  mined_chain(Append(bs, find(index, prev.hash, prev.timestamp + gap,
                                         <<coinbase(PK, index)>>,
                                         IF index >= step THEN d ELSE 0)),
                         length, gap, step, d)

\* ------------------------------------- the timestamp window of a block
\* A verifier holding a short chain, some time after its tip was mined.
ClockLags == {0, 1, Tolerance, MaxMinutes * Minute}

InitBlock ==
    /\ blocks \in {mined_chain(<<genesis_block>>, length, gap, 1, 0) :
                       length \in 1..MaxChain, gap \in {0, 1, Minute}}
    /\ unspent_tx_outs = ledger_after(blocks, 1, {})
    /\ tx_pool = <<>>
    /\ p2p_application = "None"
    /\ now \in {blocks[Len(blocks)].timestamp + lag : lag \in ClockLags}
    /\ mining = NoneObject
    /\ last = Event("ready", NoneObject, Quiet(this))

\* Successors of prev that are in order but for their timestamp, which lies
\* on or next to an end of the window.
TimedCandidates(prev, clock) ==
    {find(prev.index + 1, prev.hash, timestamp, <<coinbase(PK, prev.index + 1)>>, 0) :
         timestamp \in {prev.timestamp - Tolerance - 1, prev.timestamp - Tolerance,
                        prev.timestamp - Tolerance + 1, prev.timestamp + Tolerance,
                        clock - Tolerance, clock + Tolerance - 1,
                        clock + Tolerance, clock + Tolerance + 1}}

is_valid_next_step(next_block) ==
    /\ Ready
    /\ Call("is_valid_next", next_block,
            Outcome(this, IF is_valid_next(get_latest(this), next_block, now)
                          THEN PyTrue ELSE PyFalse, "", 0, 0))

\* Arguments of Block.find: the successor of the tip or a block without
\* predecessor, stamped with the caller's clock, at every difficulty the
\* digest can satisfy.
FindInputs ==
    {[class |-> "tuple", index |-> at[1], previous_hash |-> at[2],
      timestamp |-> now, data |-> data, difficulty |-> difficulty] :
         at \in {<<get_latest(this).index + 1, get_latest(this).hash>>, <<0, NoHash>>},
         data \in {<<>>, <<coinbase(PK, get_latest(this).index + 1)>>},
         difficulty \in 0..HashBits}

find_step(args) ==
    /\ Ready
    /\ Call("find", args,
            Outcome(this, find(args.index, args.previous_hash, args.timestamp,
                               args.data, args.difficulty), "", 0, 0))

\* Blocks put on the wire: the blocks of the chain, and blocks mined on its
\* tip at the miner's clock.
WireBlocks ==
    {blocks[i] : i \in DOMAIN blocks}
    \cup {find(get_latest(this).index + 1, get_latest(this).hash, now,
               <<coinbase(PK, get_latest(this).index + 1)>>, d) : d \in 0..MaxDifficulty}

\* A block is serialised and the receiver rebuilds it.
from_raw_step(b) ==
    /\ Ready
    /\ Call("from_raw", b, Outcome(this, from_raw(to_raw(b)), "", 0, 0))

NextBlock ==
    \/ Ready /\ \E b \in WireBlocks : from_raw_step(b)
    \/ Ready /\ \E next_block \in TimedCandidates(get_latest(this), now) :
                    is_valid_next_step(next_block)
    \/ Ready /\ \E args \in FindInputs : find_step(args)
    \/ Return

SpecBlock == InitBlock /\ [][NextBlock]_vars

\* ------------------- generate_raw_next_block, one statement at a time
\* A mine that runs on a worker of its own, with other calls on the
\* aggregate arriving while it is inside Block.find.

\* Lines 206-209 and the first statement of find: the tip, the clock and
\* the difficulty are read, and the search starts at nonce 0.
mine_begin(data) ==
    /\ Ready
    /\ mining = NoneObject
    /\ Len(blocks) < MaxChain
    /\ mining' = [class |-> "frame", data |-> data,
                  previous_block |-> get_latest(this),
                  next_index |-> get_latest(this).index + 1,
                  next_timestamp |-> now,
                  difficulty |-> get_difficulty(this),
                  nonce |-> 0]
    /\ UNCHANGED <<blocks, unspent_tx_outs, tx_pool, p2p_application, now, last>>

\* The test of the loop of find on the nonce the frame is at.
conforms(frame) ==
    hash_matches_difficulty(
        calculate_hash(frame.next_index, frame.previous_block.hash, frame.next_timestamp,
                       frame.data, frame.difficulty, frame.nonce),
        frame.difficulty)

Searching == mining # NoneObject /\ ~conforms(mining)

\* One turn of the loop of find on a nonce that does not conform.
mine_search ==
    /\ Searching
    /\ mining' = [mining EXCEPT !.nonce = @ + 1]
    /\ UNCHANGED <<blocks, unspent_tx_outs, tx_pool, p2p_application, now, last>>

\* find returns the block of the conforming nonce, and lines 212-216 run
\* on the aggregate as it is by then.
mine_finish ==
    /\ Ready
    /\ mining # NoneObject
    /\ conforms(mining)
    /\ LET next_block == Block(mining.next_index, mining.previous_block.hash,
                               mining.next_timestamp, mining.data,
                               mining.difficulty, mining.nonce)
           added == add_block_call(this, next_block, now)
       IN  \E out \in {IF added.ret = PyTrue
                        THEN broadcast(added, next_block)
                        ELSE [added EXCEPT !.ret = NoneObject]} :
               /\ blocks' = out.self.blocks
               /\ unspent_tx_outs' = out.self.unspent_tx_outs
               /\ tx_pool' = out.self.tx_pool
               /\ last' = Event("generate_raw_next_block", next_block, out)
    /\ mining' = NoneObject
    /\ UNCHANGED <<p2p_application, now>>

NextMining ==
    \/ Ready /\ mining = NoneObject
             /\ \E data \in ValidData(get_latest(this).index + 1, unspent_tx_outs) :
                    mine_begin(data)
    \/ mine_search
    \/ mine_finish
    \/ Ready /\ \E block \in AddBlockInputs : add_block(block)
    \/ Ready /\ \E new_blocks \in ReplaceInputs : replace(new_blocks)
    \/ set_p2p_application
    \/ Tick
    \/ Return

SpecMining == Init /\ [][NextMining]_vars

\* =============================================================== claims
\* C1: in every reachable state the active chain is non-empty, starts with
\* the genesis block, and each later block has the index of its
\* predecessor plus one and the predecessor's hash as previous_hash.
C1_ChainLinked ==
    /\ blocks # <<>>
    /\ blocks[1] = genesis_block
    /\ \A i \in 2..Len(blocks) :
           /\ blocks[i].index = blocks[i - 1].index + 1
           /\ blocks[i].previous_hash = blocks[i - 1].hash

\* A chain of three blocks that replace has just installed.
C1_Witness ==
    /\ Len(blocks) >= 3
    /\ last.op = "replace"
    /\ last.ret = PyTrue

\* C2: the accumulated difficulty of the active chain never decreases, and
\* a replace that returns true leaves it strictly greater than before.
C2_DifficultyMonotonic ==
    [][/\ get_accumulated_difficulty(blocks') >= get_accumulated_difficulty(blocks)
       /\ (last'.op = "replace" /\ last'.ret = PyTrue)
              => get_accumulated_difficulty(blocks')
                     > get_accumulated_difficulty(blocks)]_vars

\* A replace has returned true for a chain that holds a block of
\* difficulty 1 or more.
C2_Witness ==
    /\ last.op = "replace"
    /\ last.ret = PyTrue
    /\ get_accumulated_difficulty(blocks) > Len(blocks)

\* C3: replace(new_blocks) returns true if and only if validate_blocks
\* succeeds on new_blocks and the candidate's accumulated difficulty is
\* strictly greater than the active chain's; when it returns true, blocks is
\* new_blocks, unspent_tx_outs is the set validate_blocks returned and the
\* latest block is the candidate's last block.
C3_ReplaceDecision ==
    [][last'.op = "replace"
          => LET new_blocks == last'.arg
                 validated == validate_blocks(new_blocks, now)
                 succeeds == validated.exc = "" /\ ~validated.result.is_none
                 wins == /\ succeeds
                         /\ get_accumulated_difficulty(new_blocks.items)
                                > get_accumulated_difficulty(blocks)
             IN  /\ (last'.ret = PyTrue) <=> wins
                 /\ (last'.ret = PyTrue)
                        => /\ blocks' = new_blocks.items
                           /\ unspent_tx_outs' = validated.result.value
                           /\ blocks'[Len(blocks')]
                                  = new_blocks.items[Len(new_blocks.items)]]_vars

\* C4: a replace that returns false changes nothing: blocks, the unspent
\* set and the pool are as before, tx_pool.update was not called and
\* nothing was broadcast.
C4_RejectedReplaceIsInert ==
    [][(last'.op = "replace" /\ last'.ret = PyFalse)
          => /\ blocks' = blocks
             /\ unspent_tx_outs' = unspent_tx_outs
             /\ tx_pool' = tx_pool
             /\ last'.pool_updates = 0
             /\ last'.broadcasts = 0]_vars

\* A valid candidate other than the active chain, of the same accumulated
\* difficulty, has been refused.
C4_Witness ==
    /\ last.op = "replace"
    /\ last.ret = PyFalse
    /\ isinstance(last.arg, "list")
    /\ last.arg.items # blocks
    /\ ~validate_blocks(last.arg, now).result.is_none
    /\ get_accumulated_difficulty(last.arg.items) = get_accumulated_difficulty(blocks)

\* The fold of process_transactions over a chain, from the empty set.
RECURSIVE fold_process_transactions(_, _, _)
fold_process_transactions(chain, i, utxos) ==
    IF i > Len(chain) THEN Some(utxos)
    ELSE LET next == process_transactions(chain[i].data, utxos, chain[i].index)
         IN  IF next.is_none THEN None
             ELSE fold_process_transactions(chain, i + 1, next.value)

\* C5: unspent_tx_outs is the fold of process_transactions over the
\* blocks of the active chain, in order, from the empty set.
C5_LedgerIsFold ==
    fold_process_transactions(blocks, 1, {}) = Some(unspent_tx_outs)

\* The unspent set holds an output paid to the receiver of a transfer,
\* right after add_block or replace succeeded.
C5_Witness ==
    /\ last.op \in {"add_block", "replace"}
    /\ last.ret = PyTrue
    /\ \E u \in unspent_tx_outs : u.address = "B"

\* C6: every non-genesis block of the active chain, and the block that
\* add_block has just accepted, stores the canonical hash of its other six
\* fields, and the first `difficulty` bits of that hash are zero.
ProvenBlock(b) ==
    /\ b.hash = calculate_hash(b.index, b.previous_hash, b.timestamp,
                               b.data, b.difficulty, b.nonce)
    /\ b.hash * (2 ^ b.difficulty) < HashSpace

C6_AcceptedBlocksProven ==
    /\ \A i \in 2..Len(blocks) : ProvenBlock(blocks[i])
    /\ (last.op = "add_block" /\ last.ret = PyTrue)
           => (last.arg = blocks[Len(blocks)] /\ ProvenBlock(last.arg))

\* add_block has accepted a block of difficulty 1 whose search needed more
\* than one attempt.
C6_Witness ==
    /\ last.op = "add_block"
    /\ last.ret = PyTrue
    /\ last.arg.difficulty >= 1
    /\ last.arg.nonce >= 1

\* What a call did to the aggregate: nothing at all, or the three effects
\* of an accepted block (tip advanced by one block, unspent set swapped for
\* the result of process_transactions, tx_pool.update called once).
NothingHappened ==
    /\ blocks' = blocks
    /\ unspent_tx_outs' = unspent_tx_outs
    /\ tx_pool' = tx_pool
    /\ last'.pool_updates = 0
    /\ last'.broadcasts = 0

BlockAppended ==
    /\ Len(blocks') = Len(blocks) + 1
    /\ SubSeq(blocks', 1, Len(blocks)) = blocks
    /\ LET b == blocks'[Len(blocks')]
       IN  unspent_tx_outs'
               = process_transactions(b.data, unspent_tx_outs, b.index).value
    /\ last'.pool_updates = 1

\* C7 as stated: every call of add_block has all four effects (tip advance,
\* unspent set swap, tx_pool.update call, broadcast of the new tip) or none.
C7_AddBlockAllFourOrNone ==
    [][last'.op = "add_block"
          => \/ NothingHappened
             \/ (BlockAppended /\ last'.broadcasts = 1)]_vars

\* C7 as amended: every call of add_block, made directly or by
\* generate_raw_next_block, has all three of its effects (tip advance,
\* unspent set swap, tx_pool.update call) or none of them, the three exactly
\* when it returns true; add_block itself broadcasts nothing.
C7_AddBlockThreeOrNone ==
    [][/\ last'.op \in {"add_block", "generate_raw_next_block", "generate_next_block"}
          => \/ BlockAppended
             \/ (blocks' = blocks /\ unspent_tx_outs' = unspent_tx_outs
                 /\ tx_pool' = tx_pool /\ last'.pool_updates = 0)
       /\ last'.op = "add_block"
          => /\ last'.broadcasts = 0
             /\ (last'.ret = PyTrue) <=> BlockAppended
             /\ (last'.ret # PyTrue) <=> NothingHappened]_vars

\* add_block has accepted a block while the broadcaster was wired, and
\* nothing was broadcast.
C7_Witness ==
    /\ last.op = "add_block"
    /\ last.ret = PyTrue
    /\ last.pool_updates = 1
    /\ last.broadcasts = 0
    /\ p2p_application = "P2PApplication"

\* C8: every call of replace has all of its four effects (chain swap,
\* unspent set swap, tx_pool.update call, broadcast of the new tip) or none
\* of them.
C8_ReplaceAllOrNone ==
    [][last'.op = "replace"
          => \/ NothingHappened
             \/ /\ isinstance(last'.arg, "list")
                /\ blocks' = last'.arg.items
                /\ unspent_tx_outs' = validate_blocks(last'.arg, now).result.value
                /\ last'.pool_updates = 1
                /\ last'.broadcasts = 1]_vars

\* C9: while p2p_application is None a broadcast is a no-op: a mine that
\* appended its block returns the block, a replace that installed its
\* candidate returns true and a send_transaction that the pool accepted
\* returns the transaction, none of them raising.
C9_UnsetBroadcasterIsNoOp ==
    p2p_application = "None"
        => /\ (/\ last.op \in {"generate_raw_next_block", "generate_next_block"}
               /\ last.pool_updates = 1)
                  => (last.exc = "" /\ last.ret = blocks[Len(blocks)])
           /\ (last.op = "replace" /\ last.pool_updates = 1)
                  => (last.exc = "" /\ last.ret = PyTrue)
           /\ (last.op = "send_transaction" /\ last.exc # "BadRequestError")
                  => (last.exc = "" /\ last.ret = last.arg)

\* C10: add_block called with an argument that is not a Block raises
\* BadRequestError and leaves blocks, unspent_tx_outs and the pool as they
\* were.
C10_NonBlockIsBadRequest ==
    [][(last'.op = "add_block" /\ ~isinstance(last'.arg, "Block"))
          => /\ last'.exc = "BadRequestError"
             /\ blocks' = blocks
             /\ unspent_tx_outs' = unspent_tx_outs
             /\ tx_pool' = tx_pool]_vars

\* C11: validate_blocks reports the empty list invalid, so replace([])
\* returns false without raising and without any change of state.
C11_EmptyCandidateRefused ==
    [][(last'.op = "replace" /\ last'.arg = PyList(<<>>))
          => /\ validate_blocks(last'.arg, now) = Returned(None)
             /\ last'.exc = ""
             /\ last'.ret = PyFalse
             /\ NothingHappened]_vars

\* The block the specification retargets against: B(n - interval), or B0
\* when the chain is shorter; blocks[i + 1] is the block of index i.
RetargetReference ==
    blocks[Max(get_latest(this).index - DIFFICULTY_ADJUSTMENT_INTERVAL, 0) + 1]

Retargets ==
    /\ get_latest(this).index > 0
    /\ get_latest(this).index % DIFFICULTY_ADJUSTMENT_INTERVAL = 0

\* C12: at a tip Bn with n > 0 and n mod 10 = 0, get_difficulty retargets
\* against P = B(n-10): with actual = Bn.timestamp - P.timestamp and
\* expected = 100 s it answers P.difficulty + 1 when actual < expected / 2,
\* max(P.difficulty - 1, 0) when actual > expected * 2, else P.difficulty.
C12_RetargetAgainstTenBack ==
    (last.op = "get_difficulty" /\ Retargets) =>
        LET P == RetargetReference
            actual == get_latest(this).timestamp - P.timestamp
            expected == BLOCK_GENERATION_INTERVAL * DIFFICULTY_ADJUSTMENT_INTERVAL
                            * TicksPerSecond
        IN  last.ret = PyInt(IF 2 * actual < expected THEN P.difficulty + 1
                             ELSE IF actual > expected * 2
                                  THEN Max(P.difficulty - 1, 0)
                                  ELSE P.difficulty)

\* C13: get_difficulty computes a retarget only at a tip whose index is a
\* positive multiple of 10; at index 0 and at every other index it answers
\* the tip's own difficulty.  The answer is always a non-negative integer.
C13_RetargetOnlyAtPeriodEnd ==
    last.op = "get_difficulty" =>
        /\ last.exc = ""
        /\ isinstance(last.ret, "int")
        /\ last.ret.value \in Nat
        /\ Retargets => last.ret.value = get_adjusted_difficulty(this)
        /\ ~Retargets => last.ret.value = get_latest(this).difficulty

\* The controller was asked at a period end and the retarget moved the
\* difficulty away from the tip's.
C13_Witness ==
    /\ last.op = "get_difficulty"
    /\ Retargets
    /\ last.ret.value # get_latest(this).difficulty

\* C14: is_valid_next rejects a candidate whose timestamp is exactly the
\* previous block's timestamp + 60 s, or exactly the verifier's now - 60 s.
C14_RejectedAtPrevPlusAndNowMinus ==
    (/\ last.op = "is_valid_next"
     /\ \/ last.arg.timestamp = get_latest(this).timestamp + Tolerance
        \/ last.arg.timestamp = now - Tolerance)
        => last.ret = PyFalse

\* C14, amended: the candidate rejected by the strict comparisons is the
\* one exactly 60 s before the previous block, or exactly 60 s after the
\* verifier's now; an otherwise valid candidate is accepted from one tick
\* inside each end, so also at previous + 60 s when that is less than
\* 60 s ahead of now, and at now - 60 s when that is less than 60 s
\* before the previous block.
C14_RejectedAtPrevMinusAndNowPlus ==
    last.op = "is_valid_next" =>
        LET prev == get_latest(this)
            t == last.arg.timestamp
        IN  /\ (t = prev.timestamp - Tolerance \/ t = now + Tolerance)
                   => last.ret = PyFalse
            /\ (prev.timestamp - Tolerance + 1 <= t /\ t <= now + Tolerance - 1)
                   => last.ret = PyTrue

\* A candidate exactly 60 s after the verifier's now, not too old for the
\* previous block, was refused.
C14_Witness ==
    /\ last.op = "is_valid_next"
    /\ last.arg.timestamp = now + Tolerance
    /\ get_latest(this).timestamp - last.arg.timestamp < Tolerance
    /\ last.ret = PyFalse

\* C15: Block.find is deterministic and returns the lowest conforming
\* nonce: the nonce k of the block it returns conforms, no nonce in
\* 0..k-1 does, and a second run on the same inputs returns the same block.
C15_FindLowestNonce ==
    last.op = "find" =>
        LET a == last.arg
            b == last.ret
            matches(n) ==
                hash_matches_difficulty(
                    calculate_hash(a.index, a.previous_hash, a.timestamp, a.data,
                                   a.difficulty, n), a.difficulty)
        IN  /\ last.exc = ""
            /\ isinstance(b, "Block")
            /\ <<b.index, b.previous_hash, b.timestamp, b.data, b.difficulty>>
                   = <<a.index, a.previous_hash, a.timestamp, a.data, a.difficulty>>
            /\ b.nonce \in Nat
            /\ matches(b.nonce)
            /\ \A j \in 0..(b.nonce - 1) : ~matches(j)
            /\ b.hash = calculate_hash_for_block(b)
            /\ find(a.index, a.previous_hash, a.timestamp, a.data, a.difficulty) = b

\* A search that had to pass over nonces that do not conform.
C15_Witness ==
    /\ last.op = "find"
    /\ last.ret.nonce > 1
    /\ last.arg.difficulty > 1

\* C16: for every Block b, blocks mined at the miner's wall-clock time
\* included, Block.from_raw(b.to_raw()) equals b on all seven fields.
C16_RoundTrip ==
    last.op = "from_raw" => last.ret = last.arg

\* A mine that was searching is over, with nothing returned, nothing
\* broadcast and the aggregate as it was.
CancelledMine ==
    /\ Searching
    /\ mining' = NoneObject
    /\ last'.broadcasts = 0
    /\ UNCHANGED <<blocks, unspent_tx_outs, tx_pool>>

\* C17: mining is cancellable: while a mine is searching for a nonce, the
\* caller can cancel it, which leaves blocks, unspent_tx_outs and the pool
\* unchanged and broadcasts nothing.
C17_SearchCanBeCancelled ==
    Searching => ENABLED (NextMining /\ CancelledMine)

\* C18: bad-request errors do not mutate state.  send_transaction raises
\* bad-request when the pool rejects, and then broadcasts nothing;
\* generate_next_with_transaction raises bad-request for an invalid
\* receiver address or an amount that is not an exact decimal, before any
\* mining; in each case blocks and unspent_tx_outs are unchanged.
C18_BadRequestIsInert ==
    [][/\ (/\ last'.op = "send_transaction"
           /\ ~pool_accepts(tx_pool, last'.arg, unspent_tx_outs))
          => (last'.exc = "BadRequestError" /\ last'.broadcasts = 0)
       /\ (/\ last'.op = "generate_next_with_transaction"
           /\ \/ ~is_valid_address(last'.arg.receiver_address)
              \/ ~isinstance(last'.arg.amount, "Decimal"))
          => last'.exc = "BadRequestError"
       /\ (/\ last'.op \in {"send_transaction", "generate_next_with_transaction"}
           /\ last'.exc = "BadRequestError")
          => /\ blocks' = blocks
             /\ unspent_tx_outs' = unspent_tx_outs
             /\ tx_pool' = tx_pool
             /\ last'.pool_updates = 0
             /\ last'.broadcasts = 0]_vars

\* The pool refused a transfer it already holds while the broadcaster was
\* wired, and send_transaction raised.
C18_Witness ==
    /\ last.op = "send_transaction"
    /\ last.exc = "BadRequestError"
    /\ p2p_application = "P2PApplication"
    /\ tx_pool # <<>>

\* The tip is no longer the block the running mine read; blocks are told
\* apart by their hash, as sha256 tells them apart.
TipChanged ==
    /\ mining # NoneObject
    /\ get_latest(this).hash # mining.previous_block.hash

\* C19: if the tip changes between the moment a mine reads it and the
\* moment it calls add_block, the mined block is not appended, the
\* operation returns none, it broadcasts nothing and the chain invariant
\* still holds; when the block is accepted, the operation broadcasts the
\* latest block exactly once and returns the block.
C19_StaleTipRace ==
    [][(mining # NoneObject /\ mining' = NoneObject) =>
          /\ TipChanged =>
                 /\ blocks' = blocks
                 /\ unspent_tx_outs' = unspent_tx_outs
                 /\ last'.exc = ""
                 /\ last'.ret = NoneObject
                 /\ last'.broadcasts = 0
                 /\ C1_ChainLinked'
          /\ blocks' # blocks =>
                 /\ blocks' = Append(blocks, last'.arg)
                 /\ last'.exc = ""
                 /\ last'.ret = last'.arg
                 /\ last'.broadcasts = 1]_vars

\* The difficulty get_difficulty prescribes for the successor of the
\* first n blocks of a chain.
PrescribedAfter(chain, n) == get_difficulty([this EXCEPT !.blocks = SubSeq(chain, 1, n)])

\* C20: every block accepted by add_block, and every non-genesis block of
\* a chain accepted by replace, carries exactly the difficulty that
\* get_difficulty prescribes on the chain before it; a candidate of any
\* other difficulty is rejected.
C20_DifficultyEnforced ==
    [][/\ (last'.op = "add_block" /\ isinstance(last'.arg, "Block"))
          => \/ last'.arg.difficulty = get_difficulty(this)
             \/ last'.ret = PyFalse /\ blocks' = blocks
       /\ (last'.op = "replace" /\ blocks' # blocks)
          => \A i \in 2..Len(blocks') :
                 blocks'[i].difficulty = PrescribedAfter(blocks', i - 1)]_vars

====
